---- MODULE Spec2Model ----
(***************************************************************************)
(* Model of src/Task_1.py: the asynchronous file sorter.  read_folder      *)
(* validates the source root, creates the destination root, walks the      *)
(* source tree, creates one task (_guarded_copy) per file and gathers      *)
(* them.  Each task acquires the semaphore, runs copy_file (is_file,       *)
(* mkdir of the bucket, _unique_path, shutil.copy2) and releases it.       *)
(* Every `await asyncio.to_thread(...)` is one atomic file-system step;    *)
(* steps of different tasks interleave freely.                             *)
(*                                                                         *)
(* File names are sequences of one-character strings, so that suffix,      *)
(* stem, lower() and the "{stem} ({n}){suffix}" format are computed.       *)
(***************************************************************************)
EXTENDS Integers, Sequences, FiniteSets, TLC

\* ------------------------------------------------------------------ bounds
\* largest number of files in the source tree
MaxFiles == 2
\* largest value of the --concurrency argument
MaxConc == 2
\* the --concurrency argument goes down to -MaxNeg
MaxNeg == 1
\* longest file name given to the classifier on its own
MaxNameLen == 5
\* longest word list given to map_reduce
MaxWords == 3
\* largest --threads value given to map_reduce
MaxThreads == 2

\* ------------------------------------------------- pathlib / str operators
Dot == "."

\* str.lower() on the characters of the model's alphabet
LowerChar(c) ==
  CASE c = "T" -> "t"
    [] c = "X" -> "x"
    [] c = "A" -> "a"
    [] OTHER -> c

Lower(s) == [j \in 1..Len(s) |-> LowerChar(s[j])]

\* 1-based index of the last '.' of s, 0 when there is none (str.rfind + 1)
RFindDot(s) ==
  LET D == {j \in 1..Len(s) : s[j] = Dot}
  IN IF D = {} THEN 0 ELSE CHOOSE j \in D : \A m \in D : m <= j

\* PurePath.suffix: name[i:] when 0 < i < len(name) - 1 (0-based i), else ""
Suffix(name) ==
  LET j == RFindDot(name)
  IN IF 1 < j /\ j < Len(name) THEN SubSeq(name, j, Len(name)) ELSE <<>>

\* PurePath.stem: name[:i] under the same condition, else the whole name
Stem(name) ==
  LET j == RFindDot(name)
  IN IF 1 < j /\ j < Len(name) THEN SubSeq(name, 1, j - 1) ELSE name

\* str.lstrip(".")
RECURSIVE LStripDot(_)
LStripDot(s) ==
  IF s # <<>> /\ Head(s) = Dot THEN LStripDot(Tail(s)) ELSE s

NoExtension == <<"n","o","_","e","x","t","e","n","s","i","o","n">>

\* the bucket name computed without lower()
ExtNoLower(name) ==
  LET e == LStripDot(Suffix(name))
  IN IF e = <<>> THEN NoExtension ELSE e

\* copy_file line 75: src_file.suffix.lower().lstrip(".") or "no_extension"
Ext(name) ==
  LET e == LStripDot(Lower(Suffix(name)))
  IN IF e = <<>> THEN NoExtension ELSE e

Digits == <<"0","1","2","3","4","5","6","7","8","9">>

\* decimal formatting of n >= 0, as the f-string does
RECURSIVE Str(_)
Str(n) ==
  IF n < 10 THEN <<Digits[n + 1]>> ELSE Str(n \div 10) \o <<Digits[(n % 10) + 1]>>

\* the counter appended to the whole name: "a.txt (1)"
CandidateAfterName(name, n) ==
  name \o <<" ", "(">> \o Str(n) \o <<")">>

\* _unique_path line 100: f"{stem} ({n}){suffix}"
Candidate(name, n) ==
  Stem(name) \o <<" ", "(">> \o Str(n) \o <<")">> \o Suffix(name)

\* ------------------------------------------------------ the file systems
\* The files a source tree may hold: directory (relative to src) and name.
Catalog ==
  << [dir |-> "d1", name |-> <<"a",".","t","x","t">>],
     [dir |-> "d2", name |-> <<"a",".","t","x","t">>],
     [dir |-> "d1", name |-> <<"b",".","T","X","T">>],
     [dir |-> "d1", name |-> <<"c">>] >>

Units == 1..Len(Catalog)

Txt == <<"t","x","t">>

\* destination contents that may exist before the run: <<bucket, name>>
PreA == <<Txt, <<"a",".","t","x","t">>>>
PreA1 == <<Txt, <<"a"," ","(","1",")",".","t","x","t">>>>
PreSets == { {}, {PreA}, {PreA, PreA1} }

NoPath == <<>>

VARIABLES
  pc,          \* position of _amain / read_folder
  argc,        \* args.concurrency, as given on the command line
  concurrency, \* the concurrency read_folder received (0 before _amain)
  sem,         \* asyncio.Semaphore._value
  waiters,     \* asyncio.Semaphore._waiters, FIFO
  srcKind,     \* what the source root is: "missing", "file" or "dir"
  srcFiles,    \* the files of the source tree (indices into Catalog)
  dstRoot,     \* the destination root exists
  dirs,        \* bucket directories existing under the destination root
  files,       \* files existing under the destination: <<bucket, name>>
  pre,         \* the files that existed before the run
  walked,      \* the list os.walk produced
  tasks,       \* the list `tasks`
  upc,         \* position of each task
  isfile,      \* what is_file returned to each task: "yes", "no" ("unknown" before)
  un,          \* the counter n of each task's _unique_path
  target,      \* target_path of each task
  outcome,     \* how each task ended: "copied", "skipped", "failed"
  copies,      \* number of shutil.copy2 calls that completed, per task
  overwrites,  \* number of shutil.copy2 calls whose target already existed
  report,      \* the messages read_folder logged
  errors,      \* the paths _guarded_copy logged an exception for
  cname,       \* a file name given to the classifier of line 75 on its own
  cbucket,     \* the bucket computed for cname (<<>> before)
  words,       \* map_reduce: the parameter words
  restrict,    \* map_reduce: restrict_to, [given |-> FALSE] standing for None
  threads,     \* map_reduce: threads, [given |-> FALSE] standing for None
  mapped,      \* map_reduce: the list `mapped`
  freqs,       \* map_reduce: the dict returned
  mpc          \* map_reduce: position, "idle" when it is not running

vars == << pc, argc, concurrency, sem, waiters, srcKind, srcFiles, dstRoot, dirs,
           files, pre, walked, tasks, upc, isfile, un, target, outcome, copies,
           overwrites, report, errors, cname, cbucket, words, restrict,
           threads, mapped, freqs, mpc >>

\* the variables of the classifier on its own and of map_reduce (Task_2.py)
clsVars == << cname, cbucket >>
mrVars == << words, restrict, threads, mapped, freqs, mpc >>

\* the inputs of a run of Task_1.py, and what Task_1.py never touches
srcVars == << argc, srcKind, srcFiles, pre, clsVars, mrVars >>
dstVars == << dstRoot, dirs, files, overwrites >>
semVars == << sem, waiters >>
unitVars == << upc, isfile, un, target, outcome, copies >>

\* the sequence of the elements of a set of integers, ascending
RECURSIVE SortedSeq(_)
SortedSeq(S) ==
  IF S = {} THEN <<>>
  ELSE LET m == CHOOSE x \in S : \A y \in S : x <= y
       IN <<m>> \o SortedSeq(S \ {m})

Range(s) == {s[j] : j \in 1..Len(s)}

Max(a, b) == IF a >= b THEN a ELSE b

\* the classifier is not run on its own
ClsIdle == cname = <<>> /\ cbucket = <<>>

\* map_reduce is not running
MrIdle ==
  /\ words = <<>>
  /\ restrict = [given |-> FALSE, set |-> {}]
  /\ threads = [given |-> FALSE, n |-> 0]
  /\ mapped = <<>>
  /\ freqs = <<>>
  /\ mpc = "idle"

Init ==
  /\ pc = "amain"
  /\ argc \in (0 - MaxNeg)..MaxConc
  /\ concurrency = 0
  /\ sem = 0
  /\ waiters = <<>>
  /\ srcKind \in {"missing", "file", "dir"}
  /\ srcFiles \in {S \in SUBSET Units : Cardinality(S) <= MaxFiles}
  /\ (srcKind # "dir" => srcFiles = {})
  /\ dstRoot \in BOOLEAN
  /\ pre \in PreSets
  /\ (~dstRoot => pre = {})
  /\ files = pre
  /\ dirs = {p[1] : p \in pre}
  /\ walked = <<>>
  /\ tasks = <<>>
  /\ upc = [i \in Units |-> "absent"]
  /\ isfile = [i \in Units |-> "unknown"]
  /\ un = [i \in Units |-> 0]
  /\ target = [i \in Units |-> NoPath]
  /\ outcome = [i \in Units |-> "none"]
  /\ copies = [i \in Units |-> 0]
  /\ overwrites = 0
  /\ report = {}
  /\ errors = {}
  /\ ClsIdle
  /\ MrIdle

\* ------------------------------------------------------------ read_folder
\* _amain passing args.concurrency on as it is
AmainNoMax ==
  /\ pc = "amain"
  /\ concurrency' = argc
  /\ pc' = "exists"
  /\ UNCHANGED << srcVars, dstVars, semVars, unitVars, walked, tasks, report,
                  errors >>

\* _amain, lines 105-112: concurrency = max(1, int(args.concurrency))
Amain ==
  /\ pc = "amain"
  /\ concurrency' = Max(1, argc)
  /\ pc' = "exists"
  /\ UNCHANGED << srcVars, dstVars, semVars, unitVars, walked, tasks, report,
                  errors >>

\* read_folder, lines 32-34
CheckExists ==
  /\ pc = "exists"
  /\ IF srcKind = "missing"
       THEN /\ report' = report \cup {<<"src_missing", 0>>}
            /\ pc' = "done"
       ELSE /\ report' = report
            /\ pc' = "is_dir"
  /\ UNCHANGED << concurrency, srcVars, dstVars, semVars, unitVars, walked,
                  tasks, errors >>

\* read_folder going on without the check of lines 35-37
CheckIsDirNoCheck ==
  /\ pc = "is_dir"
  /\ report' = report
  /\ pc' = "mkdir"
  /\ UNCHANGED << concurrency, srcVars, dstVars, semVars, unitVars, walked,
                  tasks, errors >>

\* read_folder, lines 35-37
CheckIsDir ==
  /\ pc = "is_dir"
  /\ IF srcKind # "dir"
       THEN /\ report' = report \cup {<<"src_not_dir", 0>>}
            /\ pc' = "done"
       ELSE /\ report' = report
            /\ pc' = "mkdir"
  /\ UNCHANGED << concurrency, srcVars, dstVars, semVars, unitVars, walked,
                  tasks, errors >>

\* read_folder, lines 39-42: mkdir of the destination root, then the
\* semaphore and the empty task list.  A failing mkdir propagates to _amain
\* (lines 113-114), which logs it.
MkdirDst ==
  /\ pc = "mkdir"
  /\ \E ok \in BOOLEAN :
       IF ok
         THEN /\ dstRoot' = TRUE
              /\ sem' = concurrency
              /\ pc' = "walk"
              /\ report' = report
         ELSE /\ report' = report \cup {<<"fatal", 0>>}
              /\ pc' = "done"
              /\ UNCHANGED << dstRoot, sem >>
  /\ UNCHANGED << concurrency, srcVars, dirs, files, overwrites, waiters,
                  unitVars, walked, tasks, errors >>

\* read_folder, line 44: list(os.walk(src)) in a worker thread
Walk ==
  /\ pc = "walk"
  /\ walked' = SortedSeq(srcFiles)
  /\ pc' = "loop"
  /\ UNCHANGED << concurrency, srcVars, dstVars, semVars, unitVars, tasks,
                  report, errors >>

\* the subsequence of s whose elements are in E
RECURSIVE Filter(_, _)
Filter(s, E) ==
  IF s = <<>> THEN <<>>
  ELSE IF Head(s) \in E THEN <<Head(s)>> \o Filter(Tail(s), E)
       ELSE Filter(Tail(s), E)

\* read_folder without the return of lines 53-55
CreateTasksNoEmptyCheck ==
  /\ pc = "loop"
  /\ \E E \in SUBSET Range(walked) :
       LET ts == Filter(walked, E)
       IN /\ tasks' = ts
          /\ upc' = [i \in Units |-> IF i \in E THEN "created" ELSE upc[i]]
          /\ report' = report
                          \cup {<<"skip", i>> : i \in Range(walked) \ E}
                          \cup {<<"count", Len(ts)>>}
          /\ pc' = "gather"
  /\ UNCHANGED << concurrency, srcVars, dstVars, semVars, isfile, un, target,
                  outcome, copies, walked, errors >>

\* the loop without the `continue` of line 50: a task for every walked path
CreateTasksNoContinue ==
  /\ pc = "loop"
  /\ \E E \in SUBSET Range(walked) :
       /\ tasks' = walked
       /\ upc' = [i \in Units |-> IF i \in Range(walked) THEN "created" ELSE upc[i]]
       /\ IF walked = <<>>
            THEN /\ report' = report \cup {<<"no_files", 0>>}
                 /\ pc' = "done"
            ELSE /\ report' = report
                                \cup {<<"skip", i>> : i \in Range(walked) \ E}
                                \cup {<<"count", Len(walked)>>}
                 /\ pc' = "gather"
  /\ UNCHANGED << concurrency, srcVars, dstVars, semVars, isfile, un, target,
                  outcome, copies, walked, errors >>

\* read_folder, lines 44-57: the loop has no await, so it is one step.  E is
\* the set of walked paths that still exist at line 48; the others are
\* skipped with a warning.  One task is created per path of E (line 51).
CreateTasks ==
  /\ pc = "loop"
  /\ \E E \in SUBSET Range(walked) :
       LET ts == Filter(walked, E)
       IN /\ tasks' = ts
          /\ upc' = [i \in Units |-> IF i \in E THEN "created" ELSE upc[i]]
          /\ IF ts = <<>>
               THEN /\ report' = report
                                   \cup {<<"skip", i>> : i \in Range(walked) \ E}
                                   \cup {<<"no_files", 0>>}
                    /\ pc' = "done"
               ELSE /\ report' = report
                                   \cup {<<"skip", i>> : i \in Range(walked) \ E}
                                   \cup {<<"count", Len(ts)>>}
                    /\ pc' = "gather"
  /\ UNCHANGED << concurrency, srcVars, dstVars, semVars, isfile, un, target,
                  outcome, copies, walked, errors >>

\* read_folder going on as soon as one task is done
GatherFirst ==
  /\ pc = "gather"
  /\ \E i \in Range(tasks) : upc[i] = "done"
  /\ report' = report \cup {<<"done", Len(tasks)>>}
  /\ pc' = "done"
  /\ UNCHANGED << concurrency, srcVars, dstVars, semVars, unitVars, walked,
                  tasks, errors >>

\* what gather collects for task i: _guarded_copy returns None, also when
\* copy_file raised, line 68 having caught the exception
Result(i) == "None"

\* read_folder, lines 58-62: gather returns when every task is done; each
\* result that is an exception is logged (lines 59-61), then the completion
\* message with len(tasks) (line 62).
Gather ==
  /\ pc = "gather"
  /\ \A i \in Range(tasks) : upc[i] = "done"
  /\ report' = report
                  \cup {<<"error", i>> : i \in {t \in Range(tasks) : Result(t) # "None"}}
                  \cup {<<"done", Len(tasks)>>}
  /\ pc' = "done"
  /\ UNCHANGED << concurrency, srcVars, dstVars, semVars, unitVars, walked,
                  tasks, errors >>

\* ---------------------------------------------------------- _guarded_copy
\* position of task i in the list tasks
IndexOf(i) == CHOOSE j \in 1..Len(tasks) : tasks[j] = i

\* Semaphore.locked(): no free slot, or somebody is already waiting
Locked == sem = 0 \/ waiters # <<>>

\* a task that enters copy_file without acquiring the semaphore
BeginUngated(i) ==
  /\ pc = "gather"
  /\ upc[i] = "created"
  /\ upc' = [upc EXCEPT ![i] = "is_file"]
  /\ UNCHANGED << pc, concurrency, srcVars, dstVars, semVars, isfile, un, target,
                  outcome, copies, walked, tasks, report, errors >>

\* _guarded_copy, line 66, `async with sem` on entry: the tasks start in
\* the order of their creation once read_folder awaits gather.
Begin(i) ==
  /\ pc = "gather"
  /\ upc[i] = "created"
  /\ \A j \in 1..(IndexOf(i) - 1) : upc[tasks[j]] # "created"
  /\ IF ~Locked
       THEN /\ sem' = sem - 1
            /\ waiters' = waiters
            /\ upc' = [upc EXCEPT ![i] = "is_file"]
       ELSE /\ sem' = sem
            /\ waiters' = Append(waiters, i)
            /\ upc' = [upc EXCEPT ![i] = "waiting"]
  /\ UNCHANGED << pc, concurrency, srcVars, dstVars, isfile, un, target, outcome,
                  copies, walked, tasks, report, errors >>

\* copy_file going on whatever is_file returned
IsFileNoReturn(i) ==
  /\ upc[i] = "is_file"
  /\ \E r \in {"file", "other", "raise"} :
       CASE r = "file" ->
              /\ isfile' = [isfile EXCEPT ![i] = "yes"]
              /\ upc' = [upc EXCEPT ![i] = "mkdir"]
              /\ outcome' = outcome
         [] r = "other" ->
              /\ isfile' = [isfile EXCEPT ![i] = "no"]
              /\ upc' = [upc EXCEPT ![i] = "mkdir"]
              /\ outcome' = outcome
         [] r = "raise" ->
              /\ isfile' = isfile
              /\ upc' = [upc EXCEPT ![i] = "exit"]
              /\ outcome' = [outcome EXCEPT ![i] = "failed"]
  /\ UNCHANGED << pc, concurrency, srcVars, dstVars, semVars, un, target,
                  copies, walked, tasks, report, errors >>

\* copy_file, lines 72-74: is_file in a worker thread
IsFile(i) ==
  /\ upc[i] = "is_file"
  /\ \E r \in {"file", "other", "raise"} :
       CASE r = "file" ->
              /\ isfile' = [isfile EXCEPT ![i] = "yes"]
              /\ upc' = [upc EXCEPT ![i] = "mkdir"]
              /\ outcome' = outcome
         [] r = "other" ->
              /\ isfile' = [isfile EXCEPT ![i] = "no"]
              /\ upc' = [upc EXCEPT ![i] = "exit"]
              /\ outcome' = [outcome EXCEPT ![i] = "skipped"]
         [] r = "raise" ->
              /\ isfile' = isfile
              /\ upc' = [upc EXCEPT ![i] = "exit"]
              /\ outcome' = [outcome EXCEPT ![i] = "failed"]
  /\ UNCHANGED << pc, concurrency, srcVars, dstVars, semVars, un, target,
                  copies, walked, tasks, report, errors >>

Bucket(i) == Ext(Catalog[i].name)

\* copy_file going on to _unique_path without the mkdir of line 77
MkdirNoCreate(i) ==
  /\ upc[i] = "mkdir"
  /\ upc' = [upc EXCEPT ![i] = "unique"]
  /\ un' = [un EXCEPT ![i] = 0]
  /\ UNCHANGED << pc, concurrency, srcVars, dstVars, semVars, isfile, target,
                  outcome, copies, walked, tasks, report, errors >>

\* copy_file, lines 75-77: mkdir(parents=True, exist_ok=True) of the bucket
Mkdir(i) ==
  /\ upc[i] = "mkdir"
  /\ \E ok \in BOOLEAN :
       IF ok
         THEN /\ dstRoot' = TRUE
              /\ dirs' = dirs \cup {Bucket(i)}
              /\ upc' = [upc EXCEPT ![i] = "unique"]
              /\ un' = [un EXCEPT ![i] = 0]
              /\ outcome' = outcome
         ELSE /\ upc' = [upc EXCEPT ![i] = "exit"]
              /\ outcome' = [outcome EXCEPT ![i] = "failed"]
              /\ UNCHANGED << dstRoot, dirs, un >>
  /\ UNCHANGED << pc, concurrency, srcVars, files, overwrites, semVars, isfile,
                  target, copies, walked, tasks, report, errors >>

\* the path _unique_path is asked about: target_dir / src_file.name
Desired(i) == << Bucket(i), Catalog[i].name >>

\* the path the n-th check of _unique_path looks at (n = 0: the path itself)
Probe(i, n) ==
  IF n = 0 THEN Desired(i) ELSE << Bucket(i), Candidate(Catalog[i].name, n) >>

\* a resolver that returns the desired path without looking at the disk
UniqueNoCheck(i) ==
  /\ upc[i] = "unique"
  /\ target' = [target EXCEPT ![i] = Desired(i)]
  /\ upc' = [upc EXCEPT ![i] = "copy"]
  /\ UNCHANGED << pc, concurrency, srcVars, dstVars, semVars, isfile, un,
                  outcome, copies, walked, tasks, report, errors >>

\* _unique_path, lines 94-103: one exists() check per step
Unique(i) ==
  /\ upc[i] = "unique"
  /\ \E ok \in BOOLEAN :
       IF ok
         THEN IF Probe(i, un[i]) \notin files
                THEN /\ target' = [target EXCEPT ![i] = Probe(i, un[i])]
                     /\ upc' = [upc EXCEPT ![i] = "copy"]
                     /\ UNCHANGED << un, outcome >>
                ELSE /\ un' = [un EXCEPT ![i] = un[i] + 1]
                     /\ UNCHANGED << target, upc, outcome >>
         ELSE /\ upc' = [upc EXCEPT ![i] = "exit"]
              /\ outcome' = [outcome EXCEPT ![i] = "failed"]
              /\ UNCHANGED << un, target >>
  /\ UNCHANGED << pc, concurrency, srcVars, dstVars, semVars, isfile, copies,
                  walked, tasks, report, errors >>

\* copy_file, line 79: shutil.copy2 in a worker thread.  It opens the target
\* for writing whether or not it exists; a failing copy may have created it.
Copy(i) ==
  /\ upc[i] = "copy"
  /\ \E ok \in BOOLEAN, wrote \in BOOLEAN :
       /\ ok => wrote
       /\ files' = IF wrote THEN files \cup {target[i]} ELSE files
       /\ overwrites' = IF wrote /\ target[i] \in files
                          THEN overwrites + 1 ELSE overwrites
       /\ copies' = IF ok THEN [copies EXCEPT ![i] = copies[i] + 1] ELSE copies
       /\ outcome' = [outcome EXCEPT ![i] = IF ok THEN "copied" ELSE "failed"]
       /\ upc' = [upc EXCEPT ![i] = "exit"]
  /\ UNCHANGED << pc, concurrency, srcVars, dstRoot, dirs, semVars, isfile, un,
                  target, walked, tasks, report, errors >>

\* a task that releases once more in its exception handler
ExitDoubleRelease(i) ==
  /\ upc[i] = "exit"
  /\ IF waiters = <<>>
       THEN /\ sem' = IF outcome[i] = "failed" THEN sem + 2 ELSE sem + 1
            /\ waiters' = waiters
            /\ upc' = [upc EXCEPT ![i] = "done"]
       ELSE /\ sem' = IF outcome[i] = "failed" THEN sem + 1 ELSE sem
            /\ waiters' = Tail(waiters)
            /\ upc' = [upc EXCEPT ![i] = "done", ![Head(waiters)] = "is_file"]
  /\ errors' = IF outcome[i] = "failed" THEN errors \cup {i} ELSE errors
  /\ UNCHANGED << pc, concurrency, srcVars, dstVars, isfile, un, target,
                  outcome, copies, walked, tasks, report >>

\* a task that releases its slot only when copy_file returned normally
ExitLeaky(i) ==
  /\ upc[i] = "exit"
  /\ IF outcome[i] = "failed"
       THEN /\ UNCHANGED << sem, waiters >>
            /\ upc' = [upc EXCEPT ![i] = "done"]
       ELSE IF waiters = <<>>
              THEN /\ sem' = sem + 1
                   /\ waiters' = waiters
                   /\ upc' = [upc EXCEPT ![i] = "done"]
              ELSE /\ sem' = sem
                   /\ waiters' = Tail(waiters)
                   /\ upc' = [upc EXCEPT ![i] = "done",
                                         ![Head(waiters)] = "is_file"]
  /\ errors' = IF outcome[i] = "failed" THEN errors \cup {i} ELSE errors
  /\ UNCHANGED << pc, concurrency, srcVars, dstVars, isfile, un, target,
                  outcome, copies, walked, tasks, report >>

\* _guarded_copy, lines 66-69: leaving `async with sem` releases the slot
\* (Semaphore.release hands it to the first waiter, if any); an exception of
\* copy_file is caught and logged with the path.
Exit(i) ==
  /\ upc[i] = "exit"
  /\ IF waiters = <<>>
       THEN /\ sem' = sem + 1
            /\ waiters' = waiters
            /\ upc' = [upc EXCEPT ![i] = "done"]
       ELSE /\ sem' = sem
            /\ waiters' = Tail(waiters)
            /\ upc' = [upc EXCEPT ![i] = "done", ![Head(waiters)] = "is_file"]
  /\ errors' = IF outcome[i] = "failed" THEN errors \cup {i} ELSE errors
  /\ UNCHANGED << pc, concurrency, srcVars, dstVars, isfile, un, target,
                  outcome, copies, walked, tasks, report >>

Next ==
  \/ Amain
  \/ CheckExists
  \/ CheckIsDir
  \/ MkdirDst
  \/ Walk
  \/ CreateTasks
  \/ Gather
  \/ \E i \in Units : Begin(i)
  \/ \E i \in Units : IsFile(i)
  \/ \E i \in Units : Mkdir(i)
  \/ \E i \in Units : Unique(i)
  \/ \E i \in Units : Copy(i)
  \/ \E i \in Units : Exit(i)

Spec == Init /\ [][Next]_vars

\* the scheduler runs every ready task and every worker thread finishes
FairSpec == Spec /\ WF_vars(Next)

\* ------------------------------------------------------------ cancellation
\* The run is cancelled while read_folder awaits gather (line 58): the main
\* task of asyncio.run is cancelled, gather cancels every task that has not
\* finished, and CancelledError, which `except Exception` (lines 68, 113) does
\* not catch, is raised in each of them at its await: a task that has not
\* started never runs, a waiter leaves the queue of the semaphore, and a task
\* inside `async with sem` releases its slot on the way out.  The call a
\* worker thread is already executing cannot be stopped and goes on; a call
\* the pool has not started yet is dropped.  is_file and _unique_path change
\* nothing on disk, so only the threads of mkdir and copy2 are kept.
Holding(i) == upc[i] \in {"is_file", "mkdir", "unique", "copy", "exit"}

\* what becomes of task i, its thread running or not
AfterCancel(i, running) ==
  IF upc[i] \in {"absent", "done"} THEN upc[i]
  ELSE IF upc[i] = "mkdir" /\ running THEN "t_mkdir"
  ELSE IF upc[i] = "copy" /\ running THEN "t_copy"
  ELSE "cancelled"

\* a cancellation in which the tasks inside the gate keep their slots
CancelLeaky ==
  /\ pc = "gather"
  /\ pc' = "cancelled"
  /\ \E R \in SUBSET {i \in Units : upc[i] \in {"mkdir", "copy"}} :
       upc' = [i \in Units |-> AfterCancel(i, i \in R)]
  /\ sem' = sem
  /\ waiters' = <<>>
  /\ UNCHANGED << concurrency, srcVars, dstVars, isfile, un, target, outcome,
                  copies, walked, tasks, report, errors >>

Cancel ==
  /\ pc = "gather"
  /\ pc' = "cancelled"
  /\ \E R \in SUBSET {i \in Units : upc[i] \in {"mkdir", "copy"}} :
       upc' = [i \in Units |-> AfterCancel(i, i \in R)]
  /\ sem' = sem + Cardinality({i \in Units : Holding(i)})
  /\ waiters' = <<>>
  /\ UNCHANGED << concurrency, srcVars, dstVars, isfile, un, target, outcome,
                  copies, walked, tasks, report, errors >>

\* the mkdir a worker thread was executing when the run was cancelled ends
MkdirThreadEnds(i) ==
  /\ upc[i] = "t_mkdir"
  /\ \E ok \in BOOLEAN :
       IF ok
         THEN /\ dstRoot' = TRUE
              /\ dirs' = dirs \cup {Bucket(i)}
         ELSE UNCHANGED << dstRoot, dirs >>
  /\ upc' = [upc EXCEPT ![i] = "cancelled"]
  /\ UNCHANGED << pc, concurrency, srcVars, files, overwrites, semVars, isfile,
                  un, target, outcome, copies, walked, tasks, report, errors >>

\* the copy2 a worker thread was executing when the run was cancelled ends:
\* asyncio.run waits for the threads of the pool before it returns
CopyThreadEnds(i) ==
  /\ upc[i] = "t_copy"
  /\ \E ok \in BOOLEAN, wrote \in BOOLEAN :
       /\ ok => wrote
       /\ files' = IF wrote THEN files \cup {target[i]} ELSE files
       /\ overwrites' = IF wrote /\ target[i] \in files
                          THEN overwrites + 1 ELSE overwrites
       /\ copies' = IF ok THEN [copies EXCEPT ![i] = copies[i] + 1] ELSE copies
       /\ outcome' = [outcome EXCEPT ![i] = IF ok THEN "copied" ELSE "failed"]
  /\ upc' = [upc EXCEPT ![i] = "cancelled"]
  /\ UNCHANGED << pc, concurrency, srcVars, dstRoot, dirs, semVars, isfile, un,
                  target, walked, tasks, report, errors >>

CancelNext ==
  \/ Next
  \/ Cancel
  \/ \E i \in Units : MkdirThreadEnds(i)
  \/ \E i \in Units : CopyThreadEnds(i)

CancelSpec == Init /\ [][CancelNext]_vars

\* ------------------------------------------- the classifier on its own
\* Task_1.py is not running
RunIdle ==
  /\ pc = "idle"
  /\ argc = 1
  /\ concurrency = 0
  /\ sem = 0
  /\ waiters = <<>>
  /\ srcKind = "missing"
  /\ srcFiles = {}
  /\ dstRoot = FALSE
  /\ pre = {}
  /\ files = {}
  /\ dirs = {}
  /\ walked = <<>>
  /\ tasks = <<>>
  /\ upc = [i \in Units |-> "absent"]
  /\ isfile = [i \in Units |-> "unknown"]
  /\ un = [i \in Units |-> 0]
  /\ target = [i \in Units |-> NoPath]
  /\ outcome = [i \in Units |-> "none"]
  /\ copies = [i \in Units |-> 0]
  /\ overwrites = 0
  /\ report = {}
  /\ errors = {}

runVars == << pc, argc, concurrency, sem, waiters, srcKind, srcFiles, dstRoot,
              pre, files, dirs, walked, tasks, upc, isfile, un, target,
              outcome, copies, overwrites, report, errors >>

\* the characters of the file names: a lower-case letter, an upper-case
\* letter and the dot
NameChars == {"a", "T", "."}

\* the file names of at most MaxNameLen characters; "." and ".." name no file
Names ==
  UNION {[1..n -> NameChars] : n \in 1..MaxNameLen} \ {<<".">>, <<".", ".">>}

ClassifyInit ==
  /\ RunIdle
  /\ MrIdle
  /\ cname \in Names
  /\ cbucket = <<>>

\* line 75 of copy_file applied to the name
Classify ==
  /\ cname # <<>>
  /\ cbucket = <<>>
  /\ cbucket' = Ext(cname)
  /\ UNCHANGED << runVars, mrVars, cname >>

ClassifySpec == ClassifyInit /\ [][Classify]_vars

\* ------------------------------------------------- map_reduce (Task_2.py)
\* the words of the text and of the word list
TextWords == {"a", "b"}
ListWords == {"a", "b", "c"}

WordLists == UNION {[1..n -> TextWords] : n \in 0..MaxWords}

\* restrict_to: None, or the set load_wordlist read (empty for an empty file)
Restricts ==
  {[given |-> FALSE, set |-> {}]}
    \cup {[given |-> TRUE, set |-> S] : S \in SUBSET ListWords}

\* threads: None, or the integer of --threads
ThreadCounts ==
  {[given |-> FALSE, n |-> 0]} \cup {[given |-> TRUE, n |-> k] : k \in 0..MaxThreads}

\* `if restrict_to:` : None and the empty set are both false
Truthy(r) == r.given /\ r.set # {}

\* words = [w for w in words if w in restrict_to]
Restricted(ws, r) ==
  IF Truthy(r) THEN SelectSeq(ws, LAMBDA w : w \in r.set) ELSE ws

map_function(word) == << word, 1 >>

\* the values of the pairs with key k, in the order of the list
RECURSIVE ValuesOf(_, _)
ValuesOf(k, ms) ==
  IF ms = <<>> THEN <<>>
  ELSE IF Head(ms)[1] = k THEN << Head(ms)[2] >> \o ValuesOf(k, Tail(ms))
  ELSE ValuesOf(k, Tail(ms))

\* the buckets: every key of the mapped pairs with the list of its values
shuffle_function(mapped_values) ==
  [k \in {m[1] : m \in Range(mapped_values)} |-> ValuesOf(k, mapped_values)]

RECURSIVE Sum(_)
Sum(values) == IF values = <<>> THEN 0 ELSE Head(values) + Sum(Tail(values))

reduce_function(key, values) == << key, Sum(values) >>

\* ThreadPoolExecutor(max_workers=threads) raises ValueError for threads <= 0
PoolRaises(t) == t.given /\ t.n <= 0

MapReduceInit ==
  /\ RunIdle
  /\ ClsIdle
  /\ words \in WordLists
  /\ restrict \in Restricts
  /\ threads \in ThreadCounts
  /\ mapped = <<>>
  /\ freqs = <<>>
  /\ mpc = "map"

\* the restriction and the map phase
MapPhase ==
  /\ mpc = "map"
  /\ ~PoolRaises(threads)
  /\ LET ws == Restricted(words, restrict)
     IN mapped' = [j \in 1..Len(ws) |-> map_function(ws[j])]
  /\ mpc' = "reduce"
  /\ UNCHANGED << runVars, clsVars, words, restrict, threads, freqs >>

\* the pool of the map phase cannot be created
MapRaises ==
  /\ mpc = "map"
  /\ PoolRaises(threads)
  /\ mpc' = "raised"
  /\ UNCHANGED << runVars, clsVars, words, restrict, threads, mapped, freqs >>

\* shuffle, the reduce phase and the return
ReducePhase ==
  /\ mpc = "reduce"
  /\ LET shuffled == shuffle_function(mapped)
     IN freqs' = [k \in DOMAIN shuffled |-> reduce_function(k, shuffled[k])[2]]
  /\ mpc' = "returned"
  /\ UNCHANGED << runVars, clsVars, words, restrict, threads, mapped >>

MapReduceNext == MapPhase \/ MapRaises \/ ReducePhase

MapReduceSpec == MapReduceInit /\ [][MapReduceNext]_vars

\* ------------------------------------------------------------- type check
TypeOK ==
  /\ pc \in {"amain", "exists", "is_dir", "mkdir", "walk", "loop", "gather", "done",
            "cancelled", "idle"}
  /\ concurrency \in 0..Max(1, MaxConc)
  /\ sem \in 0..Max(1, MaxConc)
  /\ Range(waiters) \subseteq Units
  /\ upc \in [Units -> {"absent", "created", "waiting", "is_file", "mkdir",
                        "unique", "copy", "exit", "done", "cancelled",
                        "t_mkdir", "t_copy"}]
  /\ outcome \in [Units -> {"none", "copied", "skipped", "failed"}]
  /\ cname \in Names \cup {<<>>}
  /\ restrict \in Restricts
  /\ threads \in ThreadCounts
  /\ mpc \in {"idle", "map", "reduce", "raised", "returned"}

\* ------------------------------------------------------------------ claims
\* the tasks inside their copy step: between acquiring and releasing the gate
InCopy == {i \in Units : upc[i] \in {"is_file", "mkdir", "unique", "copy", "exit"}}

\* C1: in every reachable state at most `concurrency` tasks are inside their
\* copy step, for every concurrency >= 1 and every interleaving.
C1_AtMostNInCopy ==
  /\ Cardinality(InCopy) <= concurrency
  /\ (pc \in {"walk", "loop", "gather"} => concurrency >= 1)

\* the gate is full while another task waits for a slot
C1_Witness ==
  /\ Cardinality(InCopy) = concurrency
  /\ waiters # <<>>

\* a step in which copy_file of task i raises
Raises(i) == outcome[i] # "failed" /\ outcome'[i] = "failed"

\* a step in which the failed task i leaves _guarded_copy
LeavesFailed(i) == upc[i] = "exit" /\ outcome[i] = "failed" /\ upc'[i] = "done"

\* the step leaves task j where it is, or lets it proceed from the gate
NotHindered(j) ==
  /\ outcome'[j] = outcome[j]
  /\ target'[j] = target[j]
  /\ copies'[j] = copies[j]
  /\ upc'[j] = upc[j] \/ (upc[j] = "waiting" /\ upc'[j] = "is_file")

C2_Step ==
  \A i \in Units :
    /\ Raises(i) =>
         /\ pc' = pc
         /\ report' = report
         /\ \A j \in Units \ {i} : NotHindered(j) /\ upc'[j] = upc[j]
    /\ LeavesFailed(i) =>
         /\ pc' = pc
         /\ report' = report
         /\ i \in errors'
         /\ \A j \in Units \ {i} : NotHindered(j)

C2_End ==
  /\ <<"fatal", 0>> \in report => tasks = <<>>
  /\ \A i \in Range(tasks) :
       upc[i] = "done" =>
         /\ outcome[i] \in {"copied", "skipped", "failed"}
         /\ outcome[i] = "copied" => copies[i] = 1 /\ target[i] \in files
         /\ isfile[i] = "yes" /\ outcome[i] # "failed" => outcome[i] = "copied"
         /\ outcome[i] = "failed" <=> i \in errors
  /\ pc = "done" => \A i \in Range(tasks) : upc[i] = "done"

\* C2: failure isolation.  A step in which one task's copy_file raises, and
\* the step in which that task ends, change no other task except to hand it
\* the freed slot, and do not end read_folder; no per-file error reaches
\* _amain; and every created task, whatever the others did, runs to its end:
\* copied, skipped, or failed by a step of its own.
C2_FailureIsolation ==
  /\ [][C2_Step]_vars
  /\ []C2_End
  /\ <>(pc = "done" /\ \A i \in Range(tasks) : outcome[i] # "none")

\* with one slot, a task copied after an earlier task had failed
C2_Witness ==
  /\ pc = "done"
  /\ concurrency = 1
  /\ \E i, j \in Range(tasks) :
       /\ IndexOf(i) < IndexOf(j)
       /\ outcome[i] = "failed"
       /\ outcome[j] = "copied"
       /\ target[j] \in files

\* the number of tasks created for the walked path i
TasksFor(i) == Cardinality({j \in 1..Len(tasks) : tasks[j] = i})

\* C3 as stated: one task per enumerated path, and every path that is a
\* regular file when its task runs is byte-copied exactly once.
C3_Original ==
  pc = "done" =>
    /\ \A i \in Range(walked) : TasksFor(i) = 1
    /\ \A i \in Range(tasks) : isfile[i] = "yes" => copies[i] = 1

\* C3 (amended): a walked path that still exists when the loop reaches it
\* gets exactly one task and a path that has vanished by then gets none; no
\* path is byte-copied twice; a path is byte-copied only by its task and only
\* after is_file said yes; and when the run has ended, every task whose path
\* was a regular file and whose mkdir, name resolution and copy raised no
\* error has performed its byte copy exactly once.
C3_CopiedExactlyOnce ==
  /\ \A i \in Units : copies[i] <= 1
  /\ \A i \in Units : copies[i] = 1 => i \in Range(tasks) /\ isfile[i] = "yes"
  /\ pc \in {"gather", "done"} =>
       \A i \in Range(walked) :
         /\ <<"skip", i>> \notin report => TasksFor(i) = 1
         /\ <<"skip", i>> \in report => TasksFor(i) = 0 /\ upc[i] = "absent"
  /\ pc = "done" =>
       \A i \in Range(tasks) :
         isfile[i] = "yes" /\ outcome[i] # "failed" => copies[i] = 1

\* a run that copied one file and skipped another that had vanished
C3_Witness ==
  /\ pc = "done"
  /\ \E i, j \in Range(walked) :
       /\ copies[i] = 1 /\ outcome[i] = "copied"
       /\ <<"skip", j>> \in report /\ TasksFor(j) = 0

\* the tasks whose byte copy completed
Copied == {i \in Units : copies[i] >= 1}

\* C4: with concurrency = 1 the path a task is about to copy into does not
\* exist, no copy has ever written onto an existing file, every file that
\* was in the destination before the run is still there and is nobody's
\* target, and the copied files have pairwise distinct targets.
C4_SequentialNoOverwrite ==
  concurrency = 1 =>
    /\ overwrites = 0
    /\ pre \subseteq files
    /\ \A i \in Units : upc[i] = "copy" => target[i] \notin files
    /\ \A i \in Copied : target[i] \in files \ pre
    /\ \A i, j \in Copied : i # j => target[i] # target[j]

\* two a.txt of different source directories copied next to an older a.txt
C4_Witness ==
  /\ pc = "done"
  /\ concurrency = 1
  /\ PreA \in pre
  /\ {1, 2} \subseteq Copied
  /\ Catalog[1].name = Catalog[2].name /\ Catalog[1].dir # Catalog[2].dir
  /\ target[1] # target[2]
  /\ Cardinality(files) = Cardinality(pre) + 2

\* the bucket of a file name: its extension is the text after its last '.',
\* a '.' that starts the name not counting; lowercased, or the sentinel when
\* there is no extension
ExtensionBucket(name) ==
  LET D == {j \in 2..Len(name) : name[j] = "."}
      last == CHOOSE j \in D : \A m \in D : m <= j
  IN IF D = {} THEN NoExtension
     ELSE IF last = Len(name) THEN NoExtension
     ELSE [j \in 1..(Len(name) - last) |-> LowerChar(name[last + j])]

\* C5: every copied file lies directly in destination/<bucket>, the bucket
\* being the lowercased extension or "no_extension"; the bucket directory
\* exists; files whose extensions agree up to case share the bucket; and the
\* file name is the original one, casing kept, or that name with " (n)"
\* between stem and suffix when the original name was taken.
C5_LandsInBucket ==
  \A i \in Copied :
    /\ Len(target[i]) = 2
    /\ target[i][1] = ExtensionBucket(Catalog[i].name)
    /\ target[i][1] \in dirs /\ dstRoot
    /\ \/ target[i][2] = Catalog[i].name
       \/ /\ un[i] >= 1
          /\ target[i][2] = Stem(Catalog[i].name) \o <<" ", "(">> \o Str(un[i])
                              \o <<")">> \o Suffix(Catalog[i].name)
          /\ << target[i][1], Catalog[i].name >> \in files
    /\ \A j \in Copied :
         Lower(Suffix(Catalog[i].name)) = Lower(Suffix(Catalog[j].name))
           => target[i][1] = target[j][1]

\* a.txt, renamed because of an older a.txt, and b.TXT share the bucket txt
C5_Witness ==
  /\ pc = "done"
  /\ {1, 3} \subseteq Copied
  /\ target[1] = <<Txt, <<"a"," ","(","1",")",".","t","x","t">>>>
  /\ target[3] = <<Txt, <<"b",".","T","X","T">>>>

A2Txt == <<Txt, <<"a"," ","(","2",")",".","t","x","t">>>>

\* the name "{stem} ({n}){suffix}" of the file name of task i
Numbered(i, n) ==
  Stem(Catalog[i].name) \o <<" ", "(">> \o Str(n) \o <<")">> \o Suffix(Catalog[i].name)

\* the path _unique_path returned to task i, once it has returned
C6_Resolved(i) ==
  target[i] # NoPath =>
    \/ un[i] = 0 /\ target[i] = << Bucket(i), Catalog[i].name >>
    \/ /\ un[i] >= 1
       /\ target[i] = << Bucket(i), Numbered(i, un[i]) >>
       /\ << Bucket(i), Catalog[i].name >> \in files
       /\ \A m \in 1..(un[i] - 1) : << Bucket(i), Numbered(i, m) >> \in files

\* the scenarios of the claim: a.txt is the first file of a run that copies
\* one file at a time, so the destination is as it was before the run
C6_Scenarios ==
  (concurrency = 1 /\ Len(tasks) >= 1 /\ tasks[1] = 1 /\ target[1] # NoPath) =>
    /\ pre = {} => target[1] = PreA
    /\ pre = {PreA} => target[1] = PreA1
    /\ pre = {PreA, PreA1} => target[1] = A2Txt

\* the step in which _unique_path returns to task i
C6_Returns(i) == upc[i] = "unique" /\ upc'[i] = "copy"

\* C6: _unique_path returns the desired path when it is free, and otherwise
\* "{stem} (n){suffix}" in the same directory for the smallest n >= 1 whose
\* name was free when checked (all smaller ones and the desired path were
\* taken); the returned path does not exist at the moment of the check.
C6_UniquePath ==
  /\ [](\A i \in Units : C6_Resolved(i))
  /\ []C6_Scenarios
  /\ [][\A i \in Units : C6_Returns(i) =>
          /\ target'[i] \notin files
          /\ (<< Bucket(i), Catalog[i].name >> \notin files
                => target'[i] = << Bucket(i), Catalog[i].name >>)]_vars

\* with a.txt and a (1).txt present, a new a.txt has been copied to a (2).txt
C6_Witness ==
  /\ concurrency = 1
  /\ pre = {PreA, PreA1}
  /\ Len(tasks) >= 1 /\ tasks[1] = 1
  /\ copies[1] = 1
  /\ target[1] = A2Txt
  /\ A2Txt \in files

\* no task has been created and no copy has run
NoWork ==
  /\ walked = <<>> /\ tasks = <<>>
  /\ \A i \in Units : upc[i] = "absent" /\ copies[i] = 0 /\ target[i] = NoPath
  /\ sem = 0 /\ waiters = <<>>

\* C7: when the source root is missing or is not a directory, read_folder
\* logs the error and returns: it never gets past its two checks, creates no
\* task, copies nothing, and no step changes the destination (the
\* destination root is not created).
C7_BadSourceNoWork ==
  /\ [](srcKind # "dir" =>
          /\ pc \in {"amain", "exists", "is_dir", "done"}
          /\ NoWork
          /\ files = pre
          /\ (pc = "done" /\ srcKind = "missing" => report = {<<"src_missing", 0>>})
          /\ (pc = "done" /\ srcKind = "file" => report = {<<"src_not_dir", 0>>}))
  /\ [][srcKind # "dir" => UNCHANGED << dstRoot, dirs, files >>]_vars

\* the run ended on a missing source, the destination root still absent
C7_Witness ==
  /\ srcKind = "missing"
  /\ pc = "done"
  /\ report = {<<"src_missing", 0>>}
  /\ ~dstRoot

\* C8: when the walk of an existing source directory yields no file, the run
\* logs "no files" and ends (without the completion report), the
\* destination root exists, and no bucket directory and no file has been
\* created.
C8_EmptySource ==
  (srcKind = "dir" /\ srcFiles = {} /\ pc \in {"loop", "done"}
     /\ <<"fatal", 0>> \notin report) =>
    /\ dstRoot
    /\ files = pre
    /\ dirs = {q[1] : q \in pre}
    /\ tasks = <<>>
    /\ \A i \in Units : upc[i] = "absent" /\ copies[i] = 0
    /\ pc = "done" => report = {<<"no_files", 0>>}

\* an empty source: only the destination root exists after the run
C8_Witness ==
  /\ srcKind = "dir" /\ srcFiles = {}
  /\ pc = "done"
  /\ <<"no_files", 0>> \in report
  /\ dstRoot /\ dirs = {} /\ files = {}

\* read_folder has logged its final completion report (line 62)
DoneReported == \E n \in 0..Len(Catalog) : <<"done", n>> \in report

\* C9: completion is reported only when every created task has finished,
\* copied, skipped or failed: none is still to start, waiting for a slot or
\* inside its copy step.
C9_CompleteAfterAll ==
  DoneReported =>
    /\ pc = "done"
    /\ waiters = <<>>
    /\ InCopy = {}
    /\ \A i \in Range(tasks) :
         upc[i] = "done" /\ outcome[i] \in {"copied", "skipped", "failed"}

\* completion reported after two tasks, one of which had to wait for the slot
C9_Witness ==
  /\ DoneReported
  /\ concurrency = 1
  /\ Len(tasks) = 2
  /\ \E i, j \in Range(tasks) : outcome[i] = "copied" /\ outcome[j] = "failed"

\* the run is over: read_folder has returned and no task is left anywhere
\* but at its end
Finished ==
  /\ pc = "done"
  /\ waiters = <<>>
  /\ \A i \in Units : upc[i] \in {"absent", "done"}

\* C10: under fair scheduling the run ends, whatever the concurrency
\* argument (0 and negative values become 1): read_folder returns with every
\* created task finished, so no task waits for a slot forever and every call
\* of _unique_path returns; its counter never exceeds the number of files in
\* the destination.
C10_Terminates ==
  /\ <>Finished
  /\ [](\A i \in Units : un[i] <= Cardinality(files))

\* a run started with --concurrency 0 has ended; a task had waited for the
\* slot and _unique_path had counted to 2
C10_Witness ==
  /\ argc <= 0
  /\ pc = "done"
  /\ DoneReported
  /\ Len(tasks) = 2
  /\ \E i \in Range(tasks) : un[i] = 2 /\ outcome[i] = "copied"

\* the tasks whose copy_file raised
Failed == {i \in Range(tasks) : outcome[i] = "failed"}

\* the failures read_folder recorded when it summed up the run (lines 59-61)
SummaryFailures == {i \in Units : <<"error", i>> \in report}

\* C11: after the run, the number of failures recorded in the summary equals
\* the number of tasks whose copy step raised an error.
C11_SummaryCountsFailures ==
  DoneReported => Cardinality(SummaryFailures) = Cardinality(Failed)

\* C12: the processed count of the completion report equals the number of
\* tasks that completed a copy.
C12_ProcessedIsCopied ==
  DoneReported => <<"done", Cardinality(Copied)>> \in report

\* the semaphore of line 41 exists
SemCreated ==
  \/ pc \in {"walk", "loop", "gather"}
  \/ <<"no_files", 0>> \in report
  \/ DoneReported

\* the step in which task i leaves `async with sem`
Leaves(i) == upc[i] = "exit" /\ upc'[i] = "done"

\* C13: a task holds a slot exactly while it is between the acquire and the
\* release of `async with sem`: the free slots and the tasks inside their
\* copy step always add up to N, so the free slots stay within 0..N; the
\* step in which a task leaves, copied, skipped or failed, frees exactly one
\* slot or hands it to the first waiter; no task is inside its copy step
\* before it was given a slot; and when the run is over all N slots are free.
C13_GateReleased ==
  /\ [](SemCreated =>
          /\ sem \in 0..concurrency
          /\ sem + Cardinality(InCopy) = concurrency
          /\ \A i \in Range(waiters) : upc[i] = "waiting"
          /\ (pc = "done" => sem = concurrency /\ waiters = <<>>))
  /\ [][\A i \in Units : Leaves(i) =>
          \/ waiters = <<>> /\ sem' = sem + 1
          \/ /\ waiters # <<>> /\ sem' = sem
             /\ upc[Head(waiters)] = "waiting" /\ upc'[Head(waiters)] = "is_file"]_vars

\* the run is over, one task having failed and one having been skipped, and
\* the slot is free again
C13_Witness ==
  /\ DoneReported
  /\ concurrency = 1
  /\ sem = 1
  /\ \E i, j \in Range(tasks) : outcome[i] = "failed" /\ outcome[j] = "skipped"

\* tasks i and j have both been told by _unique_path that the same path is
\* free, and each is about to copy into it or has done so
SameTarget(i, j) ==
  /\ i # j /\ target[i] # NoPath /\ target[i] = target[j]
  /\ outcome[i] # "failed" /\ outcome[j] # "failed"

\* C14: the naming race.  Two tasks get the same target path only when
\* concurrency >= 2 and their files have the same name; the second check was
\* made before the first copy wrote the path; and when both have copied,
\* the destination has gained fewer files than were copied.  (That the race
\* can happen is the reachability of C14_Witness.)
C14_NamingRace ==
  /\ [](\A i, j \in Units : SameTarget(i, j) =>
          /\ concurrency >= 2
          /\ Catalog[i].name = Catalog[j].name
          /\ Catalog[i].dir # Catalog[j].dir
          /\ ({i, j} \subseteq Copied => overwrites >= 1)
          /\ ({i, j} \subseteq Copied /\ Copied = Range(tasks) /\ Failed = {}
                => Cardinality(files \ pre) < Cardinality(Copied)))
  /\ [][\A i, j \in Units :
          (C6_Returns(i) /\ i # j /\ target'[i] = target[j] /\ outcome[j] # "failed")
             => target[j] \notin files /\ upc[j] = "copy"]_vars

\* both a.txt were copied into txt/a.txt: two copies, one new file
C14_Witness ==
  /\ pc = "done"
  /\ concurrency = 2
  /\ Copied = {1, 2}
  /\ target[1] = PreA /\ target[2] = PreA
  /\ files \ pre = {PreA}
  /\ overwrites = 1

\* C15: the destination root exists before any task is created, and the
\* bucket directory of a task exists before the task resolves its target
\* name and before its byte copy starts, also when several tasks create the
\* same bucket concurrently.
C15_DirsBeforeUse ==
  /\ [](\A i \in Units :
          /\ upc[i] # "absent" => dstRoot
          /\ (upc[i] \in {"unique", "copy"} \/ target[i] # NoPath \/ copies[i] >= 1)
               => dstRoot /\ Ext(Catalog[i].name) \in dirs
          /\ target[i] # NoPath => target[i][1] \in dirs)
  /\ [](tasks # <<>> => dstRoot)
  /\ [][\A i \in Units :
          (upc[i] = "absent" /\ upc'[i] # "absent") => dstRoot]_vars
  /\ [][\A i \in Units :
          (upc[i] # "unique" /\ upc'[i] = "unique")
             => Ext(Catalog[i].name) \in dirs']_vars

\* a.txt and b.TXT have both created the bucket txt, which did not exist
\* before, and both resolve their names
C15_Witness ==
  /\ pre = {}
  /\ upc[1] = "unique" /\ upc[3] = "unique"
  /\ Txt \in dirs
  /\ dstRoot

\* the step in which is_file tells task i that its path is no regular file
FindsNoFile(i) == isfile[i] # "no" /\ isfile'[i] = "no"

\* C17: a path that is not a regular file when its task runs is skipped, not
\* failed.  The task goes straight to the end of copy_file: it never makes a
\* directory, resolves a name or copies, no error is logged for it, and it
\* leaves `async with sem` like any other task; the step that finds the path
\* and the step that ends the task change nothing in the destination and no
\* other task, except to hand over the slot.
C17_NotRegularSkipped ==
  /\ [](\A i \in Units : isfile[i] = "no" =>
          /\ outcome[i] = "skipped"
          /\ upc[i] \in {"exit", "done"}
          /\ target[i] = NoPath /\ copies[i] = 0 /\ un[i] = 0
          /\ i \notin errors
          /\ <<"error", i>> \notin report
          /\ (Ext(Catalog[i].name) \in dirs =>
                \/ \E q \in pre : q[1] = Ext(Catalog[i].name)
                \/ \E j \in Units \ {i} :
                     isfile[j] = "yes" /\ Ext(Catalog[j].name) = Ext(Catalog[i].name)))
  /\ [](\A i \in Units : outcome[i] = "skipped" => isfile[i] = "no")
  /\ [][\A i \in Units :
          (FindsNoFile(i) \/ (Leaves(i) /\ outcome[i] = "skipped")) =>
            /\ UNCHANGED << dstRoot, dirs, files, overwrites, errors, report, pc >>
            /\ \A j \in Units \ {i} : NotHindered(j)]_vars

\* with one slot, the first path was no regular file and was skipped, and
\* the second file was copied after it
C17_Witness ==
  /\ pc = "done"
  /\ concurrency = 1
  /\ Len(tasks) = 2
  /\ outcome[tasks[1]] = "skipped"
  /\ outcome[tasks[2]] = "copied"
  /\ errors = {}
  /\ sem = 1

\* the number of occurrences of w in the list
RECURSIVE Occurrences(_, _)
Occurrences(w, ws) ==
  IF ws = <<>> THEN 0
  ELSE (IF Head(ws) = w THEN 1 ELSE 0) + Occurrences(w, Tail(ws))

\* the literal contract: the text after the last '.' of the name, lowercased;
\* the sentinel when the name has no '.' or nothing after its last '.'
ContractBucket(name) ==
  LET D == {j \in 1..Len(name) : name[j] = "."}
      last == CHOOSE j \in D : \A m \in D : m <= j
  IN IF D = {} THEN NoExtension
     ELSE IF last = Len(name) THEN NoExtension
     ELSE [j \in 1..(Len(name) - last) |-> LowerChar(name[last + j])]

\* C16 as stated: on every file name the classifier returns the lowercased
\* text after the last '.' of the name, and "no_extension" exactly when the
\* name has no '.' or nothing after its '.', names starting with '.' included.
C16_Original == cbucket # <<>> => cbucket = ContractBucket(cname)

\* C16: on every file name the classifier returns the lowercased text after
\* the last '.' of the name when that '.' is neither the first nor the last
\* character of the name, and "no_extension" otherwise: a name that has no
\* other '.' than a leading one (.bashrc) is in "no_extension", as is a name
\* that ends with '.'; of several dots the last one decides (a.tar.GZ -> gz).
C16_ClassifierContract ==
  cbucket # <<>> =>
    /\ cbucket = ExtensionBucket(cname)
    /\ cbucket # NoExtension =>
         /\ cbucket = ContractBucket(cname)
         /\ \A j \in 1..Len(cbucket) : cbucket[j] \in {"a", "t"}
    /\ cbucket = NoExtension <=>
         \/ \A j \in 2..Len(cname) : cname[j] # "."
         \/ cname[Len(cname)] = "."

\* the name of the shape of .bashrc has been classified as extensionless
C16_Witness ==
  /\ cname = << ".", "a", "T" >>
  /\ cbucket = NoExtension

\* C19: for every word list, thread count and supplied restriction set, the
\* empty set included, map_reduce returns exactly the input words of the set
\* with their numbers of occurrences; with no set, every distinct input word
\* with its number of occurrences.
C19_CountsOnlyListed ==
  LET keys == IF restrict.given THEN Range(words) \cap restrict.set
              ELSE Range(words)
  IN mpc = "returned" => freqs = [k \in keys |-> Occurrences(k, words)]

\* the run has been cancelled
Cancelled == pc = "cancelled"

\* C18: when the run is cancelled while units are pending, no unit that had
\* not acquired a slot starts its copy step afterwards, every slot a cancelled
\* unit held is released, and a byte copy in flight runs to its end or fails:
\* nothing else writes to the destination after the cancellation.
C18_Cancellation ==
  /\ [](Cancelled =>
          /\ sem = concurrency
          /\ waiters = <<>>
          /\ \A i \in Units :
               upc[i] \in {"absent", "done", "cancelled", "t_mkdir", "t_copy"})
  /\ [][/\ (~Cancelled /\ Cancelled') =>
            /\ files' = files /\ dirs' = dirs /\ copies' = copies
            /\ outcome' = outcome
            /\ \A i \in Units :
                 /\ upc[i] \in {"created", "waiting"} => upc'[i] = "cancelled"
                 /\ upc'[i] = "t_copy" => upc[i] = "copy"
                 /\ upc'[i] = "t_mkdir" => upc[i] = "mkdir"
        /\ Cancelled =>
            /\ Cancelled'
            /\ \A i \in Units :
                 /\ upc[i] = "cancelled" =>
                      /\ upc'[i] = "cancelled"
                      /\ outcome'[i] = outcome[i]
                      /\ copies'[i] = copies[i]
                 /\ (upc[i] = "t_copy" /\ upc'[i] # "t_copy") =>
                      /\ upc'[i] = "cancelled"
                      /\ outcome'[i] \in {"copied", "failed"}
                      /\ outcome'[i] = "copied" =>
                           target[i] \in files' /\ copies'[i] = copies[i] + 1
            /\ files' # files =>
                 \E i \in Units :
                   /\ upc[i] = "t_copy"
                   /\ upc'[i] = "cancelled"
                   /\ files' = files \cup {target[i]}
     ]_vars

\* with one slot the run was cancelled while the first task was copying and
\* the second was waiting: the copy has run to its end, the second task never
\* looked at its file, and the slot is free
C18_Witness ==
  /\ Cancelled
  /\ concurrency = 1
  /\ Len(tasks) = 2
  /\ upc[tasks[1]] = "cancelled"
  /\ outcome[tasks[1]] = "copied"
  /\ target[tasks[1]] \in files
  /\ upc[tasks[2]] = "cancelled"
  /\ isfile[tasks[2]] = "unknown"
  /\ sem = 1

====
